---- MODULE Spec2Model ----
(***************************************************************************)
(* Model of run.py: RestartHandler (a watchdog FileSystemEventHandler that *)
(* restarts one child process on every modified *.py file) and the        *)
(* __main__ block that wires it to an Observer and shuts down on          *)
(* KeyboardInterrupt.                                                      *)
(*                                                                         *)
(* Threads: "main" runs the constructor and the __main__ block; every      *)
(* member of `threads` is a notification thread that takes events off the  *)
(* observer's queue and calls the handler.  The program as wired in        *)
(* __main__ has one such thread (Spec); SpecConc delivers callbacks on two *)
(* threads at once, which is the situation the handler's own code has to   *)
(* cope with if it is to be safe under concurrent invocation.              *)
(*                                                                         *)
(* A child process is identified by the ordinal of the Popen call that     *)
(* made it (1, 2, ...); 0 stands for None.  Popen(..., shell=True) hands   *)
(* the command to the shell, so a command that cannot be run still yields *)
(* a child (the shell), which then exits by itself: ChildExit.  SpecFail   *)
(* adds the case where Popen itself raises: SpawnFails.                    *)
(***************************************************************************)
EXTENDS Integers, Sequences, FiniteSets, TLC

\* ---- bounds ----
MaxEvents == 3
MaxQueue == 2

\* ---- strings are sequences of characters ----
PyPath == <<"a", ".", "p", "y">>
TxtPath == <<"a", ".", "t", "x", "t">>
ShortPath == <<"p", "y">>
PycPath == <<"a", ".", "p", "y", "c">>
Paths == {PyPath, TxtPath, ShortPath, PycPath}
NonPyPaths == {TxtPath, ShortPath, PycPath}
Kinds == {"created", "modified", "deleted", "moved"}
Events == [kind : Kinds, src_path : Paths]
NoEvent == [kind |-> "none", src_path |-> <<>>]

MainCommand == <<"python", "main.py">>
Commands == {<<>>, MainCommand}

None == 0
RestartPcs == {"r_check", "r_terminate", "r_wait", "r_blocked", "r_spawn"}
NoRestart == [old |-> None, foundLive |-> FALSE, sent |-> 0, made |-> 0,
              new |-> None, target |-> None, log |-> <<>>, done |-> FALSE]

VARIABLES
    command,    \* self.command
    process,    \* self.process: None or the child the handle refers to
    live,       \* children that are running
    signalled,  \* children that have been sent the termination signal
    args,       \* args[c]: the command child c was spawned with
    spawns,     \* number of Popen calls made so far
    observer,   \* "new", "scheduled", "running", "stopped"
    queue,      \* the observer's event queue
    emitted,    \* number of events the notifier has produced
    threads,    \* the notification threads
    pc,         \* position of each thread
    cur,        \* the event a notification thread was last handed
    rs,         \* record of each thread's current (or last) restart()
    dispatched, \* number of events handed to the handler
    qualSeen,   \* number of modified *.py events handed to the handler
    stopSnap,   \* number of Popen calls made when observer.stop() was called
    busyAtInt   \* threads that were inside restart() when the interrupt arrived

vars == <<command, process, live, signalled, args, spawns, observer, queue,
          emitted, threads, pc, cur, rs, dispatched, qualSeen, stopSnap, busyAtInt>>

\* str.endswith
EndsWith(s, suffix) ==
    /\ Len(s) >= Len(suffix)
    /\ SubSeq(s, Len(s) - Len(suffix) + 1, Len(s)) = suffix

QualifiesNoDot(path) == EndsWith(path, <<"p", "y">>)

\* on_modified, line 21: event.src_path.endswith(".py")
Qualifies(path) == EndsWith(path, <<".", "p", "y">>)

OverriddenAny(kind) == kind \in Kinds

\* FileSystemEventHandler.dispatch routes an event to on_<kind>; the class
\* overrides on_modified only, the other callbacks are the base no-ops.
Overridden(kind) == kind = "modified"

InitWith(ths) ==
    /\ command \in Commands
    /\ process = None
    /\ live = {}
    /\ signalled = {}
    /\ args = <<>>
    /\ spawns = 0
    /\ observer = "new"
    /\ queue = <<>>
    /\ emitted = 0
    /\ threads = ths
    /\ pc = [t \in ths \cup {"main"} |-> IF t = "main" THEN "new" ELSE "unstarted"]
    /\ cur = [t \in ths |-> NoEvent]
    /\ rs = [t \in ths \cup {"main"} |-> NoRestart]
    /\ dispatched = 0
    /\ qualSeen = 0
    /\ stopSnap = 0
    /\ busyAtInt = {}

Init == InitWith({"obs"})

InitConc == InitWith({"obs", "obs2"})

\* RestartHandler.__init__: store the command, no child yet, call restart()
Construct ==
    /\ pc["main"] = "new"
    /\ process' = None
    /\ pc' = [pc EXCEPT !["main"] = "r_check"]
    /\ rs' = [rs EXCEPT !["main"] = NoRestart]
    /\ UNCHANGED <<command, live, signalled, args, spawns, observer, queue,
                   emitted, threads, cur, dispatched, qualSeen, stopSnap, busyAtInt>>

\* restart(), line 15: if self.process
Check(t) ==
    /\ pc[t] = "r_check"
    /\ pc' = [pc EXCEPT ![t] = IF process # None THEN "r_terminate" ELSE "r_spawn"]
    /\ rs' = [rs EXCEPT ![t] = [NoRestart EXCEPT !.old = process,
                                                 !.foundLive = process \in live]]
    /\ UNCHANGED <<command, process, live, signalled, args, spawns, observer,
                   queue, emitted, threads, cur, dispatched, qualSeen, stopSnap, busyAtInt>>

TerminateAlways(t) ==
    /\ pc[t] = "r_terminate"
    /\ signalled' = signalled \cup {process}
    /\ rs' = [rs EXCEPT ![t].sent = @ + 1,
                        ![t].log = Append(@, "terminate")]
    /\ pc' = [pc EXCEPT ![t] = "r_wait"]
    /\ UNCHANGED <<command, process, live, args, spawns, observer, queue,
                   emitted, threads, cur, dispatched, qualSeen, stopSnap, busyAtInt>>

\* restart(), line 16: self.process.terminate(); the signal goes out only to
\* a child that has not exited
Terminate(t) ==
    /\ pc[t] = "r_terminate"
    /\ signalled' = IF process \in live THEN signalled \cup {process} ELSE signalled
    /\ rs' = [rs EXCEPT ![t].sent = IF process \in live THEN @ + 1 ELSE @,
                        ![t].log = Append(@, "terminate")]
    /\ pc' = [pc EXCEPT ![t] = "r_wait"]
    /\ UNCHANGED <<command, process, live, args, spawns, observer, queue,
                   emitted, threads, cur, dispatched, qualSeen, stopSnap, busyAtInt>>

\* restart(), line 17: self.process.wait() is called on the child the handle
\* refers to at that moment
WaitCall(t) ==
    /\ pc[t] = "r_wait"
    /\ rs' = [rs EXCEPT ![t].target = process]
    /\ pc' = [pc EXCEPT ![t] = "r_blocked"]
    /\ UNCHANGED <<command, process, live, signalled, args, spawns, observer,
                   queue, emitted, threads, cur, dispatched, qualSeen, stopSnap, busyAtInt>>

WaitNoBlock(t) ==
    /\ pc[t] = "r_blocked"
    /\ rs' = [rs EXCEPT ![t].log = Append(@, "wait")]
    /\ pc' = [pc EXCEPT ![t] = "r_spawn"]
    /\ UNCHANGED <<command, process, live, signalled, args, spawns, observer,
                   queue, emitted, threads, cur, dispatched, qualSeen, stopSnap, busyAtInt>>

\* restart(), line 17: wait() returns once that child has exited
WaitReturn(t) ==
    /\ pc[t] = "r_blocked"
    /\ rs[t].target \notin live
    /\ rs' = [rs EXCEPT ![t].log = Append(@, "wait")]
    /\ pc' = [pc EXCEPT ![t] = "r_spawn"]
    /\ UNCHANGED <<command, process, live, signalled, args, spawns, observer,
                   queue, emitted, threads, cur, dispatched, qualSeen, stopSnap, busyAtInt>>

\* restart(), line 18: self.process = Popen(self.command, shell=True), then
\* return: to __main__ line 28 or to the notification loop
Spawn(t) ==
    /\ pc[t] = "r_spawn"
    /\ spawns' = spawns + 1
    /\ process' = spawns + 1
    /\ live' = live \cup {spawns + 1}
    /\ args' = Append(args, command)
    /\ rs' = [rs EXCEPT ![t].made = @ + 1,
                        ![t].new = spawns + 1,
                        ![t].log = Append(@, "spawn"),
                        ![t].done = TRUE]
    /\ pc' = [pc EXCEPT ![t] = IF t = "main" THEN "schedule" ELSE "idle"]
    /\ UNCHANGED <<command, signalled, observer, queue, emitted, threads, cur,
                   dispatched, qualSeen, stopSnap, busyAtInt>>

\* restart(), line 18: Popen raises (the process cannot be created).  Neither
\* restart() nor on_modified has an except clause, so the exception leaves
\* the handler: it ends the notification thread that called it, or, in the
\* constructor, the program.  self.process keeps its old value.
SpawnFails(t) ==
    /\ pc[t] = "r_spawn"
    /\ rs' = [rs EXCEPT ![t].log = Append(@, "raise")]
    /\ pc' = [pc EXCEPT ![t] = "crashed"]
    /\ UNCHANGED <<command, process, live, signalled, args, spawns, observer,
                   queue, emitted, threads, cur, dispatched, qualSeen, stopSnap,
                   busyAtInt>>

\* the child process ends, by itself or because of the signal
ChildExit(c) ==
    /\ c \in live
    /\ live' = live \ {c}
    /\ UNCHANGED <<command, process, signalled, args, spawns, observer, queue,
                   emitted, threads, pc, cur, rs, dispatched, qualSeen, stopSnap, busyAtInt>>

\* __main__, lines 28-29: Observer(); observer.schedule(handler, ...)
Schedule ==
    /\ pc["main"] = "schedule"
    /\ observer' = "scheduled"
    /\ pc' = [pc EXCEPT !["main"] = "start"]
    /\ UNCHANGED <<command, process, live, signalled, args, spawns, queue,
                   emitted, threads, cur, rs, dispatched, qualSeen, stopSnap, busyAtInt>>

\* __main__, line 30: observer.start() starts the notification threads
Start ==
    /\ pc["main"] = "start"
    /\ observer' = "running"
    /\ pc' = [t \in DOMAIN pc |-> IF t = "main" THEN "loop" ELSE "idle"]
    /\ UNCHANGED <<command, process, live, signalled, args, spawns, queue,
                   emitted, threads, cur, rs, dispatched, qualSeen, stopSnap, busyAtInt>>

\* the filesystem notifier reports a change
Emit(e) ==
    /\ observer = "running"
    /\ emitted < MaxEvents
    /\ Len(queue) < MaxQueue
    /\ queue' = Append(queue, e)
    /\ emitted' = emitted + 1
    /\ UNCHANGED <<command, process, live, signalled, args, spawns, observer,
                   threads, pc, cur, rs, dispatched, qualSeen, stopSnap, busyAtInt>>

\* a notification thread takes the next event and dispatches it to the
\* handler: on_modified for a modified event, a no-op otherwise
Dispatch(t) ==
    /\ pc[t] = "idle"
    /\ observer = "running"
    /\ queue # <<>>
    /\ cur' = [cur EXCEPT ![t] = Head(queue)]
    /\ queue' = Tail(queue)
    /\ dispatched' = dispatched + 1
    /\ pc' = [pc EXCEPT ![t] = IF Overridden(Head(queue).kind) THEN "on_modified" ELSE "idle"]
    /\ qualSeen' = IF Head(queue).kind = "modified" /\ Head(queue).src_path \notin NonPyPaths
                   THEN qualSeen + 1 ELSE qualSeen
    /\ UNCHANGED <<command, process, live, signalled, args, spawns, observer,
                   emitted, threads, rs, stopSnap, busyAtInt>>

OnModifiedNoFilter(t) ==
    /\ pc[t] = "on_modified"
    /\ pc' = [pc EXCEPT ![t] = "r_check"]
    /\ UNCHANGED <<command, process, live, signalled, args, spawns, observer,
                   queue, emitted, threads, cur, rs, dispatched, qualSeen, stopSnap, busyAtInt>>

\* on_modified, lines 21-23
OnModified(t) ==
    /\ pc[t] = "on_modified"
    /\ pc' = [pc EXCEPT ![t] = IF Qualifies(cur[t].src_path) THEN "r_check" ELSE "idle"]
    /\ UNCHANGED <<command, process, live, signalled, args, spawns, observer,
                   queue, emitted, threads, cur, rs, dispatched, qualSeen, stopSnap, busyAtInt>>

\* __main__, lines 32-35: KeyboardInterrupt arrives during the sleep loop
Interrupt ==
    /\ pc["main"] = "loop"
    /\ pc' = [pc EXCEPT !["main"] = "stop"]
    /\ busyAtInt' = {t \in threads : pc[t] \in RestartPcs}
    /\ UNCHANGED <<command, process, live, signalled, args, spawns, observer,
                   queue, emitted, threads, cur, rs, dispatched, qualSeen, stopSnap>>

\* __main__, line 36: observer.stop()
Stop ==
    /\ pc["main"] = "stop"
    /\ observer' = "stopped"
    /\ pc' = [pc EXCEPT !["main"] = "join"]
    /\ stopSnap' = spawns
    /\ UNCHANGED <<command, process, live, signalled, args, spawns, queue,
                   emitted, threads, cur, rs, dispatched, qualSeen, busyAtInt>>

\* a notification thread that is between events sees the stop and ends
ThreadExit(t) ==
    /\ pc[t] = "idle"
    /\ observer = "stopped"
    /\ pc' = [pc EXCEPT ![t] = "exited"]
    /\ UNCHANGED <<command, process, live, signalled, args, spawns, observer,
                   queue, emitted, threads, cur, rs, dispatched, qualSeen, stopSnap, busyAtInt>>

JoinNoWait == TRUE

\* observer.join(): every notification thread has ended
ThreadsFinished == \A t \in threads : pc[t] \in {"exited", "crashed"}

\* __main__, line 37: observer.join() returns when the threads have ended
Join ==
    /\ pc["main"] = "join"
    /\ ThreadsFinished
    /\ pc' = [pc EXCEPT !["main"] = "done"]
    /\ UNCHANGED <<command, process, live, signalled, args, spawns, observer,
                   queue, emitted, threads, cur, rs, dispatched, qualSeen, stopSnap, busyAtInt>>

Next ==
    \/ Construct
    \/ \E t \in threads \cup {"main"} : Check(t)
    \/ \E t \in threads \cup {"main"} : Terminate(t)
    \/ \E t \in threads \cup {"main"} : WaitCall(t)
    \/ \E t \in threads \cup {"main"} : WaitReturn(t)
    \/ \E t \in threads \cup {"main"} : Spawn(t)
    \/ \E c \in live : ChildExit(c)
    \/ Schedule
    \/ Start
    \/ \E e \in Events : Emit(e)
    \/ \E t \in threads : Dispatch(t)
    \/ \E t \in threads : OnModified(t)
    \/ Interrupt
    \/ Stop
    \/ \E t \in threads : ThreadExit(t)
    \/ Join

Spec == Init /\ [][Next]_vars

\* the same program where the process launcher can fail
NextFail ==
    \/ Next
    \/ \E t \in threads \cup {"main"} : SpawnFails(t)

SpecFail == Init /\ [][NextFail]_vars

SpecConc == InitConc /\ [][Next]_vars

TypeOK ==
    /\ command \in Commands
    /\ process \in 0..spawns
    /\ live \subseteq 1..spawns
    /\ signalled \subseteq 1..spawns
    /\ Len(args) = spawns
    /\ observer \in {"new", "scheduled", "running", "stopped"}
    /\ Len(queue) <= MaxQueue
    /\ emitted <= MaxEvents

\* ---- claims ----
AllThreads == threads \cup {"main"}
Handling(t) == pc[t] \in RestartPcs \cup {"on_modified"}
Untouched == /\ process' = process
             /\ live' = live
             /\ signalled' = signalled
             /\ spawns' = spawns

\* C1: with the single notification thread of __main__, at most one child
\* spawned by the supervisor is running in any reachable state.
C1_AtMostOneLiveChild == Cardinality(live) <= 1

C1_Witness == spawns >= 3 /\ Cardinality(live) = 1 /\ qualSeen >= 2

\* C2: a modified event whose path does not end in ".py" is dropped by
\* on_modified: the step leaves the handle, the children and the signals as
\* they were and the thread goes back to waiting for events.
C2_NonMatchingIgnored ==
    [][\A t \in threads :
         (pc[t] = "on_modified" /\ cur[t].src_path \in NonPyPaths /\ pc'[t] # pc[t])
             => (Untouched /\ pc'[t] = "idle")]_vars

C2_Witness ==
    /\ pc["obs"] = "idle"
    /\ cur["obs"].kind = "modified"
    /\ cur["obs"].src_path = ShortPath
    /\ dispatched = 1
    /\ process = 1
    /\ 1 \in live
    /\ signalled = {}

\* C3: every modified *.py event handed to the handler gives exactly one
\* restart cycle: once the handler is back, the old child is not running, one
\* new child was spawned, the handle refers to it and not to the old child,
\* and the number of spawns is the number of such events plus one.
C3_OneRestartPerEvent ==
    /\ pc["main"] \notin {"new"} \cup RestartPcs
          => spawns + Cardinality({t \in threads : Handling(t) /\ cur[t].src_path \notin NonPyPaths})
                 = qualSeen + 1
    /\ \A t \in threads :
          (rs[t].done /\ ~Handling(t))
              => /\ rs[t].old # None
                 /\ rs[t].old \notin live
                 /\ rs[t].made = 1
                 /\ rs[t].new # rs[t].old
                 /\ process = rs[t].new

C3_Witness ==
    /\ pc["obs"] = "idle"
    /\ qualSeen = 2
    /\ spawns = 3
    /\ rs["obs"].old = 2
    /\ rs["obs"].sent = 1
    /\ process = 3

\* C4: a restart() that finds no running child (the handle is None, as in
\* the constructor's call, or refers to a child that has exited) sends no
\* signal, never waits on a running child, and spawns exactly one child,
\* with the stored command.
C4_RestartWithoutChild ==
    /\ \A t \in AllThreads :
          ((pc[t] \in RestartPcs \ {"r_check"} \/ rs[t].done) /\ ~rs[t].foundLive)
              => /\ rs[t].sent = 0
                 /\ ~(pc[t] = "r_blocked" /\ rs[t].target \in live)
                 /\ rs[t].made = (IF rs[t].done THEN 1 ELSE 0)
                 /\ rs[t].done => args[rs[t].new] = command
    /\ rs["main"].done => rs["main"].log = <<"spawn">>

C4_Witness ==
    /\ rs["main"].done
    /\ rs["obs"].done
    /\ rs["obs"].old = 1
    /\ ~rs["obs"].foundLive
    /\ rs["obs"].log = <<"terminate", "wait", "spawn">>
    /\ signalled = {}
    /\ spawns = 2

\* C5 (as claimed): once the interrupt-triggered shutdown has completed, no
\* child spawned by the supervisor is running.
C5_ShutdownLeavesNoChild == pc["main"] = "done" => live = {}

\* C6 (as claimed): with an empty command the start fails: no child is
\* spawned and the observer is never scheduled or started.
C6_EmptyCommandRejected ==
    command = <<>> => /\ spawns = 0
                      /\ observer = "new"
                      /\ pc["main"] \in {"new", "ConfigurationError"}

\* C7: in a restart() whose handle refers to a child, terminate() comes
\* first, then wait() returns, then the spawn; a child that is still running
\* while restart() waits has been signalled, and the old child is not
\* running when the new one is spawned.
C7_TerminateWaitSpawn ==
    \A t \in AllThreads :
        (pc[t] \in RestartPcs \ {"r_check"} \/ rs[t].done) /\ rs[t].old # None
            => /\ pc[t] = "r_terminate" => rs[t].log = <<>>
               /\ pc[t] \in {"r_wait", "r_blocked"}
                     => /\ rs[t].log = <<"terminate">>
                        /\ rs[t].old \in live => rs[t].old \in signalled
               /\ pc[t] = "r_spawn"
                     => /\ rs[t].log = <<"terminate", "wait">>
                        /\ rs[t].old \notin live
               /\ rs[t].done
                     => /\ rs[t].log = <<"terminate", "wait", "spawn">>
                        /\ rs[t].old \notin live

C7_Witness ==
    /\ pc["obs"] = "r_spawn"
    /\ rs["obs"].foundLive
    /\ rs["obs"].sent = 1
    /\ rs["obs"].old \in signalled
    /\ live = {}

\* C8 (as claimed): with callbacks delivered concurrently, at most one
\* restart() is in progress at a time and at most one child is running.
C8_RestartSerialized ==
    /\ Cardinality({t \in AllThreads : pc[t] \in RestartPcs}) <= 1
    /\ Cardinality(live) <= 1

\* C9: handing the handler a created, deleted or moved event, whatever its
\* path, starts nothing: the handle, the children and the signals are as
\* before and no thread enters on_modified or restart().
C9_OnlyModifiedActs ==
    [][(dispatched' # dispatched /\ Head(queue).kind \in {"created", "deleted", "moved"})
          => (Untouched /\ \A t \in threads : ~Handling(t)')]_vars

C9_Witness ==
    /\ pc["obs"] = "idle"
    /\ cur["obs"].kind = "created"
    /\ cur["obs"].src_path = PyPath
    /\ dispatched = 1
    /\ process = 1
    /\ 1 \in live
    /\ signalled = {}

\* C10 (as claimed): from the moment observer.stop() has been called, no
\* signal is sent, no child is spawned and no event is handed to the handler.
C10_NothingAfterStop ==
    [][observer = "stopped"
          => (spawns' = spawns /\ signalled' = signalled /\ dispatched' = dispatched)]_vars

\* C10 (amended): once the shutdown has completed (observer.join() has
\* returned), no signal is sent, no child is spawned and no event is handed
\* to the handler, also when events are still queued; a restart() that was
\* in progress when stop() was called has finished by then.
C10_NothingAfterShutdown ==
    [][pc["main"] = "done"
          => (spawns' = spawns /\ signalled' = signalled /\ dispatched' = dispatched
              /\ \A t \in threads : ~Handling(t))]_vars

C10_Witness ==
    /\ pc["main"] = "done"
    /\ queue # <<>>
    /\ spawns > stopSnap

\* C11 (as claimed): a spawn that fails inside a restart() triggered by a
\* qualifying event does not end the supervision: the notification thread
\* that ran the restart is still there to take the next event.
C11_SpawnFailureSurvived ==
    \A t \in threads :
        (rs[t].log # <<>> /\ rs[t].log[Len(rs[t].log)] = "raise") => pc[t] # "crashed"

\* C12 (as claimed): the handle only moves absent -> running -> terminated
\* -> absent: it changes only from or to None, and whenever restart() goes
\* on to terminate the child behind the handle, that child is running.
C12_HandleViaAbsent ==
    [][/\ process' # process => (process = None \/ process' = None)
       /\ \A t \in AllThreads :
             (pc[t] = "r_check" /\ pc'[t] = "r_terminate") => process \in live]_vars

\* C12 (amended): the handle is None only until the first spawn and never
\* goes back to None; it changes only in a spawn, from None or from a child
\* that has exited, directly to the newly spawned running child.
C12_HandleReplacedDirectly ==
    [][/\ process = None <=> spawns = 0
       /\ process' # process
             => /\ process' # None
                /\ spawns' = spawns + 1
                /\ process' = spawns'
                /\ process' \in live'
                /\ process \notin live
                /\ process = spawns]_vars

C12_Witness ==
    /\ process = 2
    /\ rs["obs"].old = 1
    /\ rs["obs"].done
    /\ 1 \notin live
    /\ 2 \in live

\* C13: wait() has no timeout and nothing kills the child: in every step
\* that leaves the awaited child running, a restart() blocked on it stays
\* blocked, no child is spawned, no signal is sent and no event is handed
\* to the handler, however many events are queued.
C13_BlockedWhileChildRuns ==
    [][\A t \in threads :
         (pc[t] = "r_blocked" /\ rs[t].target \in live /\ rs[t].target \in live')
             => /\ pc'[t] = "r_blocked"
                /\ spawns' = spawns
                /\ signalled' = signalled
                /\ dispatched' = dispatched
                /\ process' = process]_vars

C13_Witness ==
    /\ pc["obs"] = "r_blocked"
    /\ rs["obs"].target \in live
    /\ rs["obs"].target \in signalled
    /\ Len(queue) = MaxQueue
    /\ pc["main"] = "join"

\* C14: nothing is respawned when a child exits: that step only removes the
\* child from the running ones and leaves the handle on it.  A child is
\* spawned only by the constructor's restart() (the first spawn) or by the
\* restart() of a notification thread that is handling a modified *.py
\* event, and when the old child had exited by itself that restart() is
\* never blocked in wait() and ends with exactly one spawn.
C14_NoSpontaneousRespawn ==
    [][/\ live' # live /\ spawns' = spawns
             => /\ process' = process
                /\ live' \subseteq live
                /\ pc' = pc
       /\ spawns' # spawns
             => /\ spawns' = spawns + 1
                /\ \E t \in AllThreads :
                      /\ pc[t] = "r_spawn"
                      /\ pc'[t] # "r_spawn"
                      /\ t = "main" => spawns = 0
                      /\ t # "main" => /\ cur[t].kind = "modified"
                                       /\ cur[t].src_path \notin NonPyPaths
       /\ \A t \in threads :
             (rs[t].old # None /\ ~rs[t].foundLive /\ rs[t].old \notin signalled)
                 => /\ pc[t] = "r_blocked" => rs[t].target \notin live
                    /\ rs[t].done => rs[t].made = 1]_vars

C14_Witness ==
    /\ rs["obs"].done
    /\ rs["obs"].old = 1
    /\ ~rs["obs"].foundLive
    /\ 1 \notin signalled
    /\ process = 2
    /\ live = {2}
    /\ qualSeen = 1
    /\ dispatched = 3

\* C15: when the shutdown has finished (observer.join() has returned), every
\* notification thread has ended outside restart(): a restart() that was in
\* progress when the interrupt arrived has spawned its new child, none is
\* left with the old child signalled and no new child spawned.
C15_ShutdownWaitsForRestart ==
    pc["main"] = "done"
        => \A t \in threads :
              /\ pc[t] = "exited"
              /\ t \in busyAtInt => (rs[t].done /\ rs[t].made = 1 /\ process = rs[t].new)
              /\ rs[t].sent > 0 => rs[t].made = 1

C15_Witness ==
    /\ pc["main"] = "done"
    /\ "obs" \in busyAtInt
    /\ rs["obs"].sent = 1
    /\ spawns = stopSnap + 1
    /\ process = spawns
====
